---- MODULE Spec2Model ----
(***************************************************************************)
(* A model of helm's chart-repository registry (package downloader,        *)
(* ChartRepositories) and of its repository index (package repo,           *)
(* IndexFile / ChartVersions).                                             *)
(*                                                                         *)
(* Strings are sequences of tokens: "@stable" is <<"@", "stable">>,        *)
(* "https://b/" is <<"https:", "/", "/", "b", "/">>.  Prefix tests, prefix *)
(* trimming, LastIndex and slicing work on the tokens as the Go code works *)
(* on the bytes.                                                           *)
(***************************************************************************)
EXTENDS Integers, Sequences, FiniteSets, TLC

\* Total number of registry calls made in one behaviour.
MaxCalls == 3

\* The goroutines calling the registry concurrently.
Procs == {1, 2}

(***************************************************************************)
(* Strings                                                                 *)
(***************************************************************************)
Blank == <<>>

strings_HasPrefix(s, prefix) ==
    /\ Len(s) >= Len(prefix)
    /\ SubSeq(s, 1, Len(prefix)) = prefix

strings_TrimPrefix(s, prefix) ==
    IF strings_HasPrefix(s, prefix) THEN SubSeq(s, Len(prefix) + 1, Len(s)) ELSE s

\* Go's index of the last occurrence (0-based), -1 when there is none.
strings_LastIndex(s, tok) ==
    LET hits == {k \in 1..Len(s) : s[k] = tok}
    IN  IF hits = {} THEN -1
        ELSE (CHOOSE k \in hits : \A j \in hits : j <= k) - 1

\* registry.IsOCI: the reference starts with "oci://".
registry_IsOCI(s) == strings_HasPrefix(s, <<"oci:", "/", "/">>)

\* net/url: the tokens that are a scheme followed by its colon.
SchemeTokens == {"https:", "file:", "oci:", "alias:"}

\* url.Parse fails on an invalid escape ("%" followed by no hex digits).
url_ParseOk(s) == \A k \in 1..Len(s) : s[k] # "%"

\* (*url.URL).IsAbs: the scheme is not empty.
url_IsAbs(s) == Len(s) > 0 /\ s[1] \in SchemeTokens

\* urlutil.Equal cleans the path of both URLs before comparing them: a
\* trailing slash after the host or after a path element is dropped.
RECURSIVE urlutil_Clean(_)
urlutil_Clean(u) ==
    IF Len(u) > 4 /\ u[Len(u)] = "/" THEN urlutil_Clean(SubSeq(u, 1, Len(u) - 1))
    ELSE u

urlutil_Equal(a, b) ==
    IF ~url_ParseOk(a) THEN a = b
    ELSE IF ~url_ParseOk(b) THEN FALSE
    ELSE urlutil_Clean(a) = urlutil_Clean(b)

(***************************************************************************)
(* Repository entries and the names the registry generates                 *)
(***************************************************************************)
NilEntry == [Name |-> Blank, URL |-> Blank]

managerKeyPrefix == <<"helm-manager-">>

\* key(url): the hex SHA-256 digest of the URL's bytes, one digest per
\* distinct string (not per normalised URL); it returns no error.
key(url) == <<"sha256">> \o url
key_err(url) == FALSE

GenName(url) == managerKeyPrefix \o key(url)

URL_A  == <<"https:", "/", "/", "a">>
URL_A2 == <<"https:", "/", "/", "a", "/">>
URL_B  == <<"https:", "/", "/", "b">>
URL_B2 == <<"https:", "/", "/", "b", "/">>

N_stable == <<"stable">>
N_mirror == <<"mirror">>
N_nope   == <<"nope">>

E_stable == [Name |-> N_stable, URL |-> URL_A]
E_mirror == [Name |-> N_mirror, URL |-> URL_A2]

\* A configured entry whose URL is an OCI reference.
URL_OCI == <<"oci:", "/", "/", "r">>
N_reg   == <<"reg">>
E_reg   == [Name |-> N_reg, URL |-> URL_OCI]

\* The repository files loadRepoConfig may return.
RepoFiles == { <<>>, <<E_stable>>, <<E_stable, E_mirror>>, <<E_stable, E_reg>> }

(***************************************************************************)
(* ChartRepositories: the entry table (repos, reposM) and the index cache  *)
(* (indices, indicesM)                                                     *)
(***************************************************************************)
VARIABLES
    repos,      \* c.repos: name -> entry
    config,     \* the entry table as NewChartRepositories built it
    indices,    \* c.indices: name -> loaded index
    indicesM,   \* the goroutine holding c.indicesM, 0 when free
    reposW,     \* the goroutine holding c.reposM for writing, 0 when none
    reposR,     \* the goroutines holding c.reposM for reading
    pc,         \* each goroutine's position
    op,         \* the public operation each goroutine is in
    arg,        \* its argument
    cur,        \* the reference CanonicalizeRepoName was called with
    repoEntry,  \* GetIndex's repoEntry
    depI,       \* GetForDeps: the position in deps
    out,        \* GetForDeps: the map built so far
    ret,        \* the value a finished call returns
    calls,      \* calls started so far
    loads,      \* name -> number of successful LoadIndexFile calls for it
    urlNames,   \* url -> the names calls for that URL have returned
    crashed     \* the runtime has aborted the process

regVars == <<repos, config, indices, indicesM, reposW, reposR, pc, op, arg, cur,
             repoEntry, depI, out, ret, calls, loads, urlNames, crashed>>

\* The repository index (see below).
VARIABLES
    entries,   \* i.Entries of the index operated on: chart name -> versions
    other,     \* f.Entries of a second index, the argument of Merge
    before,    \* entries before the last operation
    lastOp,    \* the last operation and its arguments
    result,    \* what the last Get returned
    sorted     \* SortEntries has run and no Merge has followed

\* How the index operated on was built.
VARIABLES
    doc,          \* the decoded document loadIndex was last given
    archives,     \* the archives IndexDirectory last found, in order
    initialised,  \* i.Entries is not nil
    returned,     \* what the last load handed to its caller: an index or nil
    panicked      \* a nil dereference or nil-map write has unwound the caller

buildVars == <<doc, archives, initialised, returned, panicked>>
idxVars == <<entries, other, before, lastOp, result, sorted, buildVars>>
vars == <<regVars, idxVars>>

\* The process runs, and a step of the registry leaves the index alone.
Alive == ~crashed /\ UNCHANGED idxVars

EmptyMap == [k \in {} |-> NilEntry]

MapPut(m, k, v) == [x \in (DOMAIN m) \cup {k} |-> IF x = k THEN v ELSE m[x]]

\* NewChartRepositories: repos[entry.Name] = entry for every entry in order.
RECURSIVE NewChartRepositories(_)
NewChartRepositories(repoFile) ==
    IF repoFile = <<>> THEN EmptyMap
    ELSE LET n == Len(repoFile)
         IN  MapPut(NewChartRepositories(SubSeq(repoFile, 1, n - 1)),
                    repoFile[n].Name, repoFile[n])

getInfo(reposMap, name) ==
    IF name = Blank THEN NilEntry
    ELSE IF name \in DOMAIN reposMap THEN reposMap[name]
    ELSE NilEntry

\* getInfoByF ranges over the map in Go's unspecified order and returns the
\* first entry f accepts: any accepted entry, or nil when there is none.
\* f is given as the function from each key to what f says of its entry.
getInfoByF(reposMap, f) ==
    LET hits == {reposMap[k] : k \in {x \in DOMAIN reposMap : f[x]}}
    IN  IF hits = {} THEN {NilEntry} ELSE hits

\* The outcomes of getInfoByURL: the entry returned, the entry table
\* afterwards and whether c.repos was written.
getInfoByURL_nostore(reposMap, url) ==
    LET same == [k \in DOMAIN reposMap |-> urlutil_Equal(reposMap[k].URL, url)]
        found == getInfoByF(reposMap, same) \ {NilEntry}
    IN  IF found # {}
        THEN {[entry |-> e, repos |-> reposMap, wrote |-> FALSE] : e \in found}
        ELSE IF key_err(url)
        THEN {[entry |-> NilEntry, repos |-> reposMap, wrote |-> FALSE]}
        ELSE {[entry |-> [Name |-> GenName(url), URL |-> url],
               repos |-> reposMap, wrote |-> FALSE]}

getInfoByURL(reposMap, url) ==
    LET same == [k \in DOMAIN reposMap |-> urlutil_Equal(reposMap[k].URL, url)]
        found == getInfoByF(reposMap, same) \ {NilEntry}
        generatedRepo == [Name |-> GenName(url), URL |-> url]
    IN  IF found # {}
        THEN {[entry |-> e, repos |-> reposMap, wrote |-> FALSE] : e \in found}
        ELSE IF key_err(url)
        THEN {[entry |-> NilEntry, repos |-> reposMap, wrote |-> FALSE]}
        ELSE {[entry |-> generatedRepo,
               repos |-> MapPut(reposMap, GenName(url), generatedRepo),
               wrote |-> TRUE]}

\* CanonicalizeRepoName's first line: no repository config for these.
NoConfigFor_blankOnly(name) == name = Blank

NoConfigFor(name) ==
    \/ name = Blank
    \/ strings_HasPrefix(name, <<"file:", "/", "/">>)
    \/ registry_IsOCI(name)

\* CanonicalizeRepoName under c.reposM: the name returned, the entry table
\* afterwards and whether c.repos was written.
CanonicalizeLocked(reposMap, name) ==
    LET at    == strings_TrimPrefix(name, <<"@">>)
        alias == strings_TrimPrefix(name, <<"alias:">>)
    IN  IF getInfo(reposMap, at) # NilEntry
        THEN {[name |-> at, repos |-> reposMap, wrote |-> FALSE]}
        ELSE IF getInfo(reposMap, alias) # NilEntry
        THEN {[name |-> alias, repos |-> reposMap, wrote |-> FALSE]}
        ELSE IF url_ParseOk(name) /\ url_IsAbs(name)
        THEN {[name |-> o.entry.Name, repos |-> o.repos, wrote |-> o.wrote] :
                  o \in getInfoByURL(reposMap, name)}
        ELSE {[name |-> Blank, repos |-> reposMap, wrote |-> FALSE]}

(***************************************************************************)
(* Index files on disk                                                     *)
(***************************************************************************)
NilIndex == [repo |-> Blank, n |-> 0]
NoErr == "nil"

\* What the cached index file of a repository may be when it is read.
FileKinds == {"valid", "missing", "empty", "malformed", "noapiversion"}

\* LoadIndexFile: os.ReadFile's error, else loadIndex's error, else the index.
\* inst is the IndexFile this call allocates.
LoadIndexFile(file, inst) ==
    IF file = "missing" THEN [index |-> NilIndex, err |-> "read"]
    ELSE IF file = "empty" THEN [index |-> NilIndex, err |-> "ErrEmptyIndexYaml"]
    ELSE IF file = "malformed" THEN [index |-> NilIndex, err |-> "unmarshal"]
    ELSE IF file = "noapiversion" THEN [index |-> NilIndex, err |-> "ErrNoAPIVersion"]
    ELSE [index |-> inst, err |-> NoErr]

\* GetIndex line 32: the cache already holds an index for name.
cacheHit_never(indicesMap, name) == FALSE

cacheHit(indicesMap, name) == name \in DOMAIN indicesMap

\* GetIndex lines 40-43: the cache after LoadIndexFile returned loaded.
storeIndex_always(indicesMap, name, loaded) ==
    [x \in (DOMAIN indicesMap) \cup {name} |->
        IF x = name THEN loaded.index ELSE indicesMap[x]]

storeIndex(indicesMap, name, loaded) ==
    IF loaded.err # NoErr THEN indicesMap
    ELSE [x \in (DOMAIN indicesMap) \cup {name} |->
            IF x = name THEN loaded.index ELSE indicesMap[x]]

(***************************************************************************)
(* The calls the goroutines make                                           *)
(***************************************************************************)
IndexNames == {Blank, N_stable, N_nope, GenName(URL_B)}
InfoNames  == {Blank, N_stable, GenName(URL_B)}
URLArgs    == {URL_A2, URL_B, URL_B2}
Refs == { Blank,
          <<"file:", "/", "/", "x">>,
          URL_OCI,
          <<"@", "stable">>,
          <<"alias:", "stable">>,
          <<"@", "nope">>,
          <<"alias:", "nope">>,
          N_nope,
          <<"https:", "/", "/", "%">>,
          URL_A2, URL_B, URL_B2 }
DepLists == { <<>>,
              << [Name |-> "d1", Repository |-> URL_B],
                 [Name |-> "d2", Repository |-> <<"@", "stable">>] >>,
              << [Name |-> "d1", Repository |-> <<"file:", "/", "/", "x">>] >> }
ChartRefs == { <<"stable", "/", "mychart">>,
               <<"mychart">>,
               <<"/", "mychart">>,
               <<"https:", "/", "/", "b", "/", "mychart">> }

\* The URLs whose returned names urlNames records.
TrackedURLs == URLArgs

NoRet == [entry |-> NilEntry, name |-> Blank, index |-> NilIndex, err |-> NoErr,
          keys |-> {}, out |-> EmptyMap]

RegInit ==
    /\ \E repoFile \in RepoFiles :
          /\ repos = NewChartRepositories(repoFile)
          /\ config = NewChartRepositories(repoFile)
    /\ indices = EmptyMap
    /\ indicesM = 0
    /\ reposW = 0
    /\ reposR = {}
    /\ pc = [p \in Procs |-> "idle"]
    /\ op = [p \in Procs |-> "none"]
    /\ arg = [p \in Procs |-> Blank]
    /\ cur = [p \in Procs |-> Blank]
    /\ repoEntry = [p \in Procs |-> NilEntry]
    /\ depI = [p \in Procs |-> 0]
    /\ out = [p \in Procs |-> EmptyMap]
    /\ ret = [p \in Procs |-> NoRet]
    /\ calls = 0
    /\ loads = [n \in IndexNames |-> 0]
    /\ urlNames = [u \in TrackedURLs |-> {}]
    /\ crashed = FALSE

Start(p, o, a, first) ==
    /\ pc' = [pc EXCEPT ![p] = first]
    /\ op' = [op EXCEPT ![p] = o]
    /\ arg' = [arg EXCEPT ![p] = a]
    /\ cur' = [cur EXCEPT ![p] = IF o = "CanonicalizeRepoName" THEN a ELSE Blank]
    /\ depI' = [depI EXCEPT ![p] = IF o = "GetForDeps" THEN 1 ELSE 0]
    /\ calls' = calls + 1

Call(p) ==
    /\ Alive
    /\ pc[p] = "idle"
    /\ calls < MaxCalls
    /\ \/ \E name \in IndexNames : Start(p, "GetIndex", name, "gi_enter")
       \/ \E name \in InfoNames : Start(p, "GetInfo", name, "info_rlock")
       \/ Start(p, "Keys", Blank, "keys_rlock")
       \/ \E u \in {URL_A, URL_B} : Start(p, "GetKeysByF", u, "kf_rlock")
       \/ \E u \in URLArgs : Start(p, "GetInfoByURL", u, "url_lock")
       \/ \E r \in Refs : Start(p, "CanonicalizeRepoName", r, "can_enter")
       \/ \E d \in DepLists : Start(p, "GetForDeps", d, "deps_loop")
       \/ \E r \in ChartRefs : Start(p, "GetForRef", r, "ref_enter")
    /\ UNCHANGED <<repos, config, indices, indicesM, reposW, reposR, repoEntry,
                   out, ret, loads, urlNames, crashed>>

\* The caller has the returned value; the goroutine is free for its next call.
Return(p) ==
    /\ Alive
    /\ pc[p] = "done"
    /\ pc' = [pc EXCEPT ![p] = "idle"]
    /\ op' = [op EXCEPT ![p] = "none"]
    /\ arg' = [arg EXCEPT ![p] = Blank]
    /\ cur' = [cur EXCEPT ![p] = Blank]
    /\ repoEntry' = [repoEntry EXCEPT ![p] = NilEntry]
    /\ depI' = [depI EXCEPT ![p] = 0]
    /\ out' = [out EXCEPT ![p] = EmptyMap]
    /\ ret' = [ret EXCEPT ![p] = NoRet]
    /\ UNCHANGED <<repos, config, indices, indicesM, reposW, reposR, calls,
                   loads, urlNames, crashed>>

Done(p, r) ==
    /\ pc' = [pc EXCEPT ![p] = "done"]
    /\ ret' = [ret EXCEPT ![p] = r]

(***************************************************************************)
(* GetIndex                                                                *)
(***************************************************************************)
\* Lines 27-31: a blank name returns at once, any other takes c.indicesM.
GetIndex_Enter(p) ==
    /\ Alive
    /\ pc[p] = "gi_enter"
    /\ \/ /\ arg[p] = Blank
          /\ Done(p, NoRet)
          /\ UNCHANGED indicesM
       \/ /\ arg[p] # Blank
          /\ indicesM = 0
          /\ indicesM' = p
          /\ pc' = [pc EXCEPT ![p] = "gi_check"]
          /\ UNCHANGED ret
    /\ UNCHANGED <<repos, config, indices, reposW, reposR, op, arg, cur,
                   repoEntry, depI, out, calls, loads, urlNames, crashed>>

\* Lines 32-34: the cached index, if there is one.
GetIndex_Check(p) ==
    /\ Alive
    /\ pc[p] = "gi_check"
    /\ \/ /\ cacheHit(indices, arg[p])
          /\ Done(p, [NoRet EXCEPT !.index = indices[arg[p]]])
          /\ indicesM' = 0
       \/ /\ ~cacheHit(indices, arg[p])
          /\ pc' = [pc EXCEPT ![p] = "gi_getInfo"]
          /\ UNCHANGED <<ret, indicesM>>
    /\ UNCHANGED <<repos, config, indices, reposW, reposR, op, arg, cur,
                   repoEntry, depI, out, calls, loads, urlNames, crashed>>

\* A goroutine is inside the assignment c.repos[generatedName] = generatedRepo.
Writing(q) == pc[q] \in {"url_write", "can_write"}

\* Lines 35-38: c.getInfo(name) reads c.repos holding c.indicesM only.  While
\* another goroutine is writing the map, the Go runtime may abort the process
\* ("concurrent map read and map write"), and a read that is not aborted may
\* miss the key.
GetIndex_GetInfo(p) ==
    /\ Alive
    /\ pc[p] = "gi_getInfo"
    /\ \/ /\ \E e \in {getInfo(repos, arg[p])} \cup
                      (IF \E q \in Procs : Writing(q) THEN {NilEntry} ELSE {}) :
                /\ repoEntry' = [repoEntry EXCEPT ![p] = e]
                /\ IF e = NilEntry
                   THEN Done(p, NoRet) /\ indicesM' = 0
                   ELSE /\ pc' = [pc EXCEPT ![p] = "gi_load"]
                        /\ UNCHANGED <<ret, indicesM>>
          /\ UNCHANGED crashed
       \/ /\ \E q \in Procs : Writing(q)
          /\ crashed' = TRUE
          /\ UNCHANGED <<pc, ret, indicesM, repoEntry>>
    /\ UNCHANGED <<repos, config, indices, reposW, reposR, op, arg, cur,
                   depI, out, calls, loads, urlNames>>

\* Lines 39-44: load the index file of repoEntry.Name and cache it under name.
GetIndex_Load(p) ==
    /\ Alive
    /\ pc[p] = "gi_load"
    /\ \E file \in FileKinds :
          LET inst == [repo |-> repoEntry[p].Name, n |-> loads[arg[p]] + 1]
              loaded == LoadIndexFile(file, inst)
          IN  /\ indices' = storeIndex(indices, arg[p], loaded)
              /\ loads' = IF loaded.err = NoErr
                          THEN [loads EXCEPT ![arg[p]] = @ + 1] ELSE loads
              /\ Done(p, [NoRet EXCEPT !.index = loaded.index, !.err = loaded.err])
    /\ indicesM' = 0
    /\ UNCHANGED <<repos, config, reposW, reposR, op, arg, cur, repoEntry,
                   depI, out, calls, urlNames, crashed>>

(***************************************************************************)
(* GetInfo, Keys, GetKeysByF: readers of the entry table                   *)
(***************************************************************************)
\* c.reposM.RLock(): granted unless a writer holds or awaits the lock.
RLock(p, next) ==
    /\ Alive
    /\ reposW = 0
    /\ reposR' = reposR \cup {p}
    /\ pc' = [pc EXCEPT ![p] = next]
    /\ UNCHANGED <<repos, config, indices, indicesM, reposW, op, arg, cur,
                   repoEntry, depI, out, ret, calls, loads, urlNames, crashed>>

\* The body of a reader and its deferred c.reposM.RUnlock().
ReadBody(p, r) ==
    /\ Alive
    /\ Done(p, r)
    /\ reposR' = reposR \ {p}
    /\ UNCHANGED <<repos, config, indices, indicesM, reposW, op, arg, cur,
                   repoEntry, depI, out, calls, loads, urlNames, crashed>>

GetInfo_RLock(p) == pc[p] = "info_rlock" /\ RLock(p, "info_body")

GetInfo_Body(p) ==
    /\ pc[p] = "info_body"
    /\ ReadBody(p, [NoRet EXCEPT !.entry = getInfo(repos, arg[p])])

Keys_RLock(p) == pc[p] = "keys_rlock" /\ RLock(p, "keys_body")

Keys_Body(p) ==
    /\ pc[p] = "keys_body"
    /\ ReadBody(p, [NoRet EXCEPT !.keys = DOMAIN repos])

GetKeysByF_RLock(p) == pc[p] = "kf_rlock" /\ RLock(p, "kf_body")

\* The predicate f of the call accepts the entries whose URL equals arg.
GetKeysByF_Body(p) ==
    /\ pc[p] = "kf_body"
    /\ ReadBody(p, [NoRet EXCEPT !.keys =
          {repos[k].Name : k \in {x \in DOMAIN repos :
                                     urlutil_Equal(repos[x].URL, arg[p])}}])

(***************************************************************************)
(* GetInfoByURL                                                            *)
(***************************************************************************)
\* c.reposM.Lock(): the writer takes the lock's writer mutex, which stops new
\* readers; its body waits until the readers that were in have left.
Lock(p, next) ==
    /\ Alive
    /\ reposW = 0
    /\ reposW' = p
    /\ pc' = [pc EXCEPT ![p] = next]
    /\ UNCHANGED <<repos, config, indices, indicesM, reposR, op, arg, cur,
                   repoEntry, depI, out, ret, calls, loads, urlNames, crashed>>

GetInfoByURL_Lock(p) == pc[p] = "url_lock" /\ Lock(p, "url_body")

\* Lines 94-109: the lookup and, when nothing matches, the start of the
\* assignment to c.repos.
GetInfoByURL_Body(p) ==
    /\ Alive
    /\ pc[p] = "url_body"
    /\ reposR = {}
    /\ \E o \in getInfoByURL(repos, arg[p]) :
          /\ repos' = o.repos
          /\ IF o.wrote
             THEN /\ pc' = [pc EXCEPT ![p] = "url_write"]
                  /\ ret' = [ret EXCEPT ![p] = [NoRet EXCEPT !.entry = o.entry]]
                  /\ UNCHANGED <<reposW, urlNames>>
             ELSE /\ Done(p, [NoRet EXCEPT !.entry = o.entry])
                  /\ reposW' = 0
                  /\ urlNames' = [urlNames EXCEPT ![arg[p]] = @ \cup {o.entry.Name}]
    /\ UNCHANGED <<config, indices, indicesM, reposR, op, arg, cur, repoEntry,
                   depI, out, calls, loads, crashed>>

\* Lines 109-110: the assignment completes, the entry is returned and the
\* deferred Unlock runs.
GetInfoByURL_Write(p) ==
    /\ Alive
    /\ pc[p] = "url_write"
    /\ pc' = [pc EXCEPT ![p] = "done"]
    /\ reposW' = 0
    /\ urlNames' = [urlNames EXCEPT ![arg[p]] = @ \cup {ret[p].entry.Name}]
    /\ UNCHANGED <<repos, config, indices, indicesM, reposR, op, arg, cur,
                   repoEntry, depI, out, ret, calls, loads, crashed>>

(***************************************************************************)
(* CanonicalizeRepoName, GetForDeps, GetForRef                             *)
(***************************************************************************)
\* CanonicalizeRepoName returns name: to the caller, or to GetForDeps' loop
\* (lines 161-163), which records a non-empty name and moves to the next dep.
CanonReturn(p, name) ==
    /\ IF op[p] = "GetForDeps"
       THEN /\ out' = [out EXCEPT ![p] =
                  IF name # Blank THEN MapPut(@, arg[p][depI[p]].Name, name) ELSE @]
            /\ depI' = [depI EXCEPT ![p] = @ + 1]
            /\ pc' = [pc EXCEPT ![p] = "deps_loop"]
            /\ ret' = [ret EXCEPT ![p] = NoRet]
       ELSE /\ Done(p, [NoRet EXCEPT !.name = name])
            /\ UNCHANGED <<out, depI>>
    /\ urlNames' = IF cur[p] \in TrackedURLs
                   THEN [urlNames EXCEPT ![cur[p]] = @ \cup {name}]
                   ELSE urlNames

\* Lines 138-141.
Canonicalize_Enter(p) ==
    /\ Alive
    /\ pc[p] = "can_enter"
    /\ \/ /\ NoConfigFor(cur[p])
          /\ CanonReturn(p, Blank)
          /\ UNCHANGED reposW
       \/ /\ ~NoConfigFor(cur[p])
          /\ reposW = 0
          /\ reposW' = p
          /\ pc' = [pc EXCEPT ![p] = "can_body"]
          /\ UNCHANGED <<out, depI, ret, urlNames>>
    /\ UNCHANGED <<repos, config, indices, indicesM, reposR, op, arg, cur,
                   repoEntry, calls, loads, crashed>>

\* Lines 143-155, up to the start of getInfoByURL's assignment to c.repos.
Canonicalize_Body(p) ==
    /\ Alive
    /\ pc[p] = "can_body"
    /\ reposR = {}
    /\ \E o \in CanonicalizeLocked(repos, cur[p]) :
          /\ repos' = o.repos
          /\ IF o.wrote
             THEN /\ pc' = [pc EXCEPT ![p] = "can_write"]
                  /\ ret' = [ret EXCEPT ![p] = [NoRet EXCEPT !.name = o.name]]
                  /\ UNCHANGED <<reposW, out, depI, urlNames>>
             ELSE /\ CanonReturn(p, o.name)
                  /\ reposW' = 0
    /\ UNCHANGED <<config, indices, indicesM, reposR, op, arg, cur, repoEntry,
                   calls, loads, crashed>>

\* The assignment completes, the generated name is returned, Unlock runs.
Canonicalize_Write(p) ==
    /\ Alive
    /\ pc[p] = "can_write"
    /\ CanonReturn(p, ret[p].name)
    /\ reposW' = 0
    /\ UNCHANGED <<repos, config, indices, indicesM, reposR, op, arg, cur,
                   repoEntry, calls, loads, crashed>>

\* Lines 159-165: the loop over deps.
GetForDeps_Loop(p) ==
    /\ Alive
    /\ pc[p] = "deps_loop"
    /\ \/ /\ depI[p] <= Len(arg[p])
          /\ cur' = [cur EXCEPT ![p] = arg[p][depI[p]].Repository]
          /\ pc' = [pc EXCEPT ![p] = "can_enter"]
          /\ UNCHANGED ret
       \/ /\ depI[p] > Len(arg[p])
          /\ Done(p, [NoRet EXCEPT !.out = out[p]])
          /\ UNCHANGED cur
    /\ UNCHANGED <<repos, config, indices, indicesM, reposW, reposR, op, arg,
                   repoEntry, depI, out, calls, loads, urlNames, crashed>>

\* Lines 169-173.
GetForRef_Enter(p) ==
    /\ Alive
    /\ pc[p] = "ref_enter"
    /\ LET i == strings_LastIndex(arg[p], "/")
       IN  \/ /\ i > 0
              /\ cur' = [cur EXCEPT ![p] = SubSeq(arg[p], 1, i)]
              /\ pc' = [pc EXCEPT ![p] = "can_enter"]
              /\ UNCHANGED ret
           \/ /\ ~(i > 0)
              /\ Done(p, NoRet)
              /\ UNCHANGED cur
    /\ UNCHANGED <<repos, config, indices, indicesM, reposW, reposR, op, arg,
                   repoEntry, depI, out, calls, loads, urlNames, crashed>>

RegNext ==
    \E p \in Procs :
       \/ Call(p)
       \/ Return(p)
       \/ GetIndex_Enter(p)
       \/ GetIndex_Check(p)
       \/ GetIndex_GetInfo(p)
       \/ GetIndex_Load(p)
       \/ GetInfo_RLock(p)
       \/ GetInfo_Body(p)
       \/ Keys_RLock(p)
       \/ Keys_Body(p)
       \/ GetKeysByF_RLock(p)
       \/ GetKeysByF_Body(p)
       \/ GetInfoByURL_Lock(p)
       \/ GetInfoByURL_Body(p)
       \/ GetInfoByURL_Write(p)
       \/ Canonicalize_Enter(p)
       \/ Canonicalize_Body(p)
       \/ Canonicalize_Write(p)
       \/ GetForDeps_Loop(p)
       \/ GetForRef_Enter(p)

\* The registry under concurrent callers; the index variables stay idle.
IdxIdle ==
    /\ entries = EmptyMap
    /\ other = EmptyMap
    /\ before = EmptyMap
    /\ lastOp = [op |-> "none", name |-> "", version |-> Blank, repeat |-> FALSE]
    /\ result = [cv |-> [Name |-> "", Version |-> Blank, Digest |-> ""],
                 pos |-> 0, err |-> NoErr]
    /\ sorted = FALSE
    /\ doc = [kind |-> "none"]
    /\ archives = <<>>
    /\ initialised = TRUE
    /\ returned = "none"
    /\ panicked = FALSE

Init == RegInit /\ IdxIdle

Next == RegNext

Spec == Init /\ [][Next]_vars

(***************************************************************************)
(* Claims about the registry                                               *)
(***************************************************************************)
HoldsRepos(p) == reposW = p \/ p \in reposR

\* The positions whose next step reads c.repos.
ReadPcs == {"gi_getInfo", "info_body", "keys_body", "kf_body", "url_body", "can_body"}

Returns(p, o) == pc[p] # "done" /\ pc'[p] = "done" /\ op[p] = o

Unregistered(u) == \A k \in DOMAIN config : ~urlutil_Equal(config[k].URL, u)

EntriesFor(u) == {k \in DOMAIN repos : urlutil_Equal(repos[k].URL, u)}

\* C1: for a URL that matches no configured entry, all CanonicalizeRepoName
\* and GetInfoByURL calls for it, in any interleaving, return one and the same
\* generated name, and the entry table holds exactly one entry for that URL
\* once a call has returned, and never more than one.
C1_OneSyntheticEntry ==
    \A u \in TrackedURLs :
        Unregistered(u) =>
            /\ Cardinality(EntriesFor(u)) <= 1
            /\ urlNames[u] # {} =>
                  /\ urlNames[u] = EntriesFor(u)
                  /\ Cardinality(EntriesFor(u)) = 1
                  /\ \A k \in EntriesFor(u) :
                        /\ k \notin DOMAIN config
                        /\ strings_HasPrefix(k, managerKeyPrefix)

\* C1 witness: two concurrent calls for the unregistered URL, one by each
\* operation, have both returned the generated name and the table has grown
\* by one entry.
C1_Witness ==
    /\ pc[1] = "done" /\ op[1] = "GetInfoByURL" /\ arg[1] = URL_B
    /\ pc[2] = "done" /\ op[2] = "CanonicalizeRepoName" /\ arg[2] = URL_B
    /\ ret[1].entry.Name = ret[2].name
    /\ ret[2].name # Blank
    /\ Cardinality(DOMAIN repos) = Cardinality(DOMAIN config) + 1

\* C2: for every name the index file is loaded successfully at most once, a
\* cached index is never evicted or replaced, and every GetIndex call that
\* returns once the name is cached returns the cached index.
C2_LoadedOnce ==
    [][ /\ \A n \in IndexNames : loads'[n] <= 1
        /\ \A n \in DOMAIN indices :
              n \in DOMAIN indices' /\ indices'[n] = indices[n]
        /\ \A p \in Procs :
              (Returns(p, "GetIndex") /\ arg[p] \in DOMAIN indices') =>
                  /\ ret'[p].index = indices'[arg[p]]
                  /\ ret'[p].err = NoErr ]_regVars

\* C2 witness: both goroutines have returned from GetIndex for the same name
\* with the same index after one load.
C2_Witness ==
    /\ \A p \in Procs :
          /\ pc[p] = "done" /\ op[p] = "GetIndex" /\ arg[p] = N_stable
          /\ ret[p].index # NilIndex
          /\ ret[p].index = indices[N_stable]
    /\ loads[N_stable] = 1

\* C3: no read of the entry table runs while another goroutine is writing a
\* generated entry into it.
C3_NoReadDuringWrite ==
    \A p, q \in Procs : ~(p # q /\ pc[p] \in ReadPcs /\ Writing(q))

\* C3, the locking it rests on: every read of the entry table is made by a
\* goroutine that holds c.reposM.
C3_ReadsHoldLock ==
    \A p \in Procs : pc[p] \in ReadPcs => HoldsRepos(p)

\* C4: no interleaving leaves a call unable to return: while a call is in
\* progress some goroutine can take a step.
C4_EveryCallCanReturn ==
    (\E p \in Procs : pc[p] \notin {"idle", "done"}) => ENABLED RegNext

\* C4, the locking it rests on: no goroutine holds c.indicesM and c.reposM
\* together, and a goroutine that is not inside a call holds no lock.
C4_LockDiscipline ==
    \A p \in Procs :
        /\ ~(indicesM = p /\ HoldsRepos(p))
        /\ pc[p] \in {"idle", "done"} => (indicesM # p /\ ~HoldsRepos(p))

ParseErrors == {"ErrEmptyIndexYaml", "unmarshal", "ErrNoAPIVersion"}
LoadErrors == ParseErrors \cup {"read"}

\* C5 as stated: GetIndex returns (nil, nil) for a blank or unknown name and
\* an error only when the index file of a known repository exists but fails
\* to parse.
C5_ErrorOnlyOnParseFailure ==
    \A p \in Procs :
        (pc[p] = "done" /\ op[p] = "GetIndex") =>
            /\ (arg[p] = Blank \/ arg[p] \notin DOMAIN repos) => ret[p] = NoRet
            /\ ret[p].err # NoErr => ret[p].err \in ParseErrors

\* C5 amended: GetIndex returns (nil, nil) for a blank or unknown name, and an
\* error only when LoadIndexFile fails for a known repository, because the
\* file cannot be read or does not parse; a call that returns no index leaves
\* the index cache unchanged and c.indicesM free.
C5_ErrorOnlyOnLoadFailure ==
    [][ \A p \in Procs :
          Returns(p, "GetIndex") =>
              /\ (arg[p] = Blank \/ arg[p] \notin DOMAIN repos') => ret'[p] = NoRet
              /\ ret'[p].err # NoErr =>
                    /\ arg[p] \in DOMAIN repos'
                    /\ ret'[p].err \in LoadErrors
                    /\ ret'[p].index = NilIndex
              /\ ret'[p].index = NilIndex => indices' = indices
              /\ indicesM' # p ]_regVars

\* C5 witness: GetIndex failed on an unreadable index file for one repository
\* and a later GetIndex for another repository returned its index.
C5_Witness ==
    /\ pc[1] = "done" /\ op[1] = "GetIndex" /\ arg[1] = N_stable
    /\ ret[1].err = "read"
    /\ pc[2] = "done" /\ op[2] = "GetIndex" /\ arg[2] = GenName(URL_B)
    /\ ret[2].index # NilIndex
    /\ DOMAIN indices = {GenName(URL_B)}

\* The references CanonicalizeRepoName has no repository config for.
FileRef == <<"file:", "/", "/", "x">>
NonRepoRefs == {Blank, FileRef, URL_OCI}

\* C14: CanonicalizeRepoName returns the empty string for a blank reference,
\* a file:// reference and an OCI reference, takes no lock and leaves the
\* entry table as it is, also when an entry with that URL is registered.
C14_NoConfigNoEntry ==
    [][ \A p \in Procs :
          (pc[p] = "can_enter" /\ cur[p] \in NonRepoRefs /\ pc'[p] # "can_enter") =>
              /\ repos' = repos
              /\ reposW' = reposW /\ reposR' = reposR
              /\ op[p] \in {"CanonicalizeRepoName", "GetForRef"} =>
                    (pc'[p] = "done" /\ ret'[p].name = Blank)
              /\ op[p] = "GetForDeps" => (pc'[p] = "deps_loop" /\ out'[p] = out[p]) ]_regVars

\* C14 witness: CanonicalizeRepoName has returned the empty string for the
\* OCI reference that is the URL of a configured entry.
C14_Witness ==
    \E p \in Procs :
        /\ pc[p] = "done" /\ op[p] = "CanonicalizeRepoName" /\ arg[p] = URL_OCI
        /\ ret[p].name = Blank
        /\ N_reg \in DOMAIN repos /\ repos[N_reg].URL = URL_OCI
        /\ repos = config

\* The references with a marker whose remainder is no repository name.
UnknownMarked == {<<"@", "nope">>, <<"alias:", "nope">>}

\* C15 as stated: a reference that starts with "@" or "alias:" and whose
\* remainder is not a registered name canonicalizes to the empty string and
\* adds no entry to the entry table.
C15_UnknownMarkerNoEntry ==
    \A p \in Procs :
        (pc[p] = "done" /\ op[p] = "CanonicalizeRepoName" /\ arg[p] \in UnknownMarked) =>
            /\ ret[p].name = Blank
            /\ \A k \in DOMAIN repos : repos[k].URL # arg[p]

\* C15, the part that holds: the "@" marker with an unknown remainder.
C15_UnknownAtNoEntry ==
    \A p \in Procs :
        (pc[p] = "done" /\ op[p] = "CanonicalizeRepoName" /\ arg[p] = <<"@", "nope">>) =>
            /\ ret[p].name = Blank
            /\ \A k \in DOMAIN repos : repos[k].URL # arg[p]

\* C20: every key of the index cache is a key of the entry table and maps to
\* an index; the entry table only grows and keeps every configured entry; a
\* non-empty name returned by CanonicalizeRepoName or GetForRef, or a value of
\* the map GetForDeps returns, is a key of the entry table at the return.
C20_TablesConsistent ==
    [][ /\ \A k \in DOMAIN indices' :
              k \in DOMAIN repos' /\ indices'[k] # NilIndex
        /\ \A k \in DOMAIN repos : k \in DOMAIN repos' /\ repos'[k] = repos[k]
        /\ \A k \in DOMAIN config : k \in DOMAIN repos' /\ repos'[k] = config[k]
        /\ \A p \in Procs :
              /\ (Returns(p, "CanonicalizeRepoName") \/ Returns(p, "GetForRef")) =>
                    (ret'[p].name # Blank => ret'[p].name \in DOMAIN repos')
              /\ Returns(p, "GetForDeps") =>
                    \A d \in DOMAIN ret'[p].out : ret'[p].out[d] \in DOMAIN repos' ]_regVars

\* C20 witness: GetForDeps has returned a map naming a generated entry and a
\* configured one, and the index of the generated entry is cached.
C20_Witness ==
    /\ pc[1] = "done" /\ op[1] = "GetForDeps"
    /\ DOMAIN ret[1].out = {"d1", "d2"}
    /\ ret[1].out["d1"] = GenName(URL_B) /\ ret[1].out["d2"] = N_stable
    /\ GenName(URL_B) \in DOMAIN indices
    /\ GenName(URL_B) \notin DOMAIN config

(***************************************************************************)
(* Semantic versions and constraints (github.com/Masterminds/semver/v3)    *)
(*                                                                         *)
(* A version string is a token sequence as well: "v1.2.0-rc1+b" is         *)
(* <<"v", "1", ".", "2", ".", "0", "-", "rc1", "+", "b">>.                 *)
(***************************************************************************)
NumTokens == {"0", "1", "2", "3", "9"}

NumVal(tok) ==
    CASE tok = "0" -> 0 [] tok = "1" -> 1 [] tok = "2" -> 2
      [] tok = "3" -> 3 [] tok = "9" -> 9 [] OTHER -> 0

WildTokens == {"*", "x", "X"}
SepTokens == {".", "-", "+", "v", ">=", " "} \cup WildTokens
IsIdent(tok) == tok \notin SepTokens

\* The position of the first tok in s, 0 when there is none.
FirstIndex(s, tok) ==
    LET hits == {k \in 1..Len(s) : s[k] = tok}
    IN  IF hits = {} THEN 0 ELSE CHOOSE k \in hits : \A j \in hits : k <= j

\* s cut at the first tok: what is before it, what is after it, and whether
\* tok is there at all.
CutAt(s, k) ==
    IF k = 0 THEN [before |-> s, after |-> <<>>, found |-> FALSE]
    ELSE [before |-> SubSeq(s, 1, k - 1), after |-> SubSeq(s, k + 1, Len(s)),
          found |-> TRUE]

Cut(s, tok) == CutAt(s, FirstIndex(s, tok))

\* An optional part, when its sign is there, is one identifier.
OneIdent(part) == part.found => (Len(part.after) = 1 /\ IsIdent(part.after[1]))

SplitParts(meta, pre) ==
    [core |-> pre.before,
     pre  |-> IF Len(pre.after) = 1 THEN pre.after[1] ELSE "",
     ok   |-> OneIdent(pre) /\ OneIdent(meta)]

SplitMeta(meta) == SplitParts(meta, Cut(meta.before, "-"))

\* The parts of  core(-prerelease)?(+metadata)?  and whether the optional
\* parts are well formed.
SplitVersion(s) == SplitMeta(Cut(s, "+"))

\* core is one to three components separated by dots, each in allowed.
CoreOk(core, allowed) ==
    /\ Len(core) \in {1, 3, 5}
    /\ \A k \in 1..Len(core) :
          IF k % 2 = 1 THEN core[k] \in allowed ELSE core[k] = "."

Component(core, n) ==
    IF Len(core) >= 2 * n - 1 THEN NumVal(core[2 * n - 1]) ELSE 0

NoVersion == [ok |-> FALSE, major |-> 0, minor |-> 0, patch |-> 0, pre |-> ""]

\* A leading "v" is dropped.
StripV(s) == IF Len(s) > 0 /\ s[1] = "v" THEN Tail(s) ELSE s

VersionOf(parts) ==
    IF parts.ok /\ CoreOk(parts.core, NumTokens)
    THEN [ok |-> TRUE, major |-> Component(parts.core, 1),
          minor |-> Component(parts.core, 2),
          patch |-> Component(parts.core, 3), pre |-> parts.pre]
    ELSE NoVersion

\* semver.NewVersion: the loose parser; a leading "v" and missing minor or
\* patch are accepted, the metadata is not part of the ordering.
semver_NewVersion(s) == VersionOf(SplitVersion(StripV(s)))

\* The order of the prerelease identifiers used (ASCII order).
PreRank(id) == CASE id = "alpha" -> 1 [] id = "rc1" -> 2 [] OTHER -> 3

\* (*Version).Compare: -1, 0 or 1; a prerelease sorts before its release.
semver_Compare(v, w) ==
    IF v.major # w.major THEN (IF v.major < w.major THEN -1 ELSE 1)
    ELSE IF v.minor # w.minor THEN (IF v.minor < w.minor THEN -1 ELSE 1)
    ELSE IF v.patch # w.patch THEN (IF v.patch < w.patch THEN -1 ELSE 1)
    ELSE IF v.pre = w.pre THEN 0
    ELSE IF v.pre = "" THEN 1
    ELSE IF w.pre = "" THEN -1
    ELSE IF PreRank(v.pre) < PreRank(w.pre) THEN -1 ELSE 1

semver_LessThan(v, w) == semver_Compare(v, w) < 0

NoConstraint == [ok |-> FALSE, func |-> "", con |-> NoVersion, dirty |-> FALSE,
                 minorDirty |-> FALSE, patchDirty |-> FALSE]

ConstraintFunc(s) == IF Len(s) > 0 /\ s[1] = ">=" THEN ">=" ELSE ""

StripFunc(s) == IF Len(s) > 0 /\ s[1] = ">=" THEN Tail(s) ELSE s

\* Component n of a constraint's version is a wildcard or missing.
Wild(core, n) == Len(core) < 2 * n - 1 \/ core[2 * n - 1] \in WildTokens

Dirty(func, major, minor, patch, pre, minorDirty, patchDirty) ==
    [ok |-> TRUE, func |-> func,
     con |-> [ok |-> TRUE, major |-> major, minor |-> minor, patch |-> patch,
              pre |-> pre],
     dirty |-> TRUE, minorDirty |-> minorDirty, patchDirty |-> patchDirty]

ConstraintOf(func, parts) ==
    IF ~(parts.ok /\ CoreOk(parts.core, NumTokens \cup WildTokens)) THEN NoConstraint
    ELSE IF Wild(parts.core, 1) THEN Dirty(func, 0, 0, 0, "", FALSE, FALSE)
    ELSE IF Wild(parts.core, 2)
    THEN Dirty(func, Component(parts.core, 1), 0, 0, parts.pre, TRUE, FALSE)
    ELSE IF Wild(parts.core, 3)
    THEN Dirty(func, Component(parts.core, 1), Component(parts.core, 2), 0,
               parts.pre, FALSE, TRUE)
    ELSE [ok |-> TRUE, func |-> func,
          con |-> [ok |-> TRUE, major |-> Component(parts.core, 1),
                   minor |-> Component(parts.core, 2),
                   patch |-> Component(parts.core, 3), pre |-> parts.pre],
          dirty |-> FALSE, minorDirty |-> FALSE, patchDirty |-> FALSE]

\* semver.NewConstraint for one comparison: an optional operator, then a
\* version whose components may be wildcards or missing.
semver_NewConstraint(s) ==
    ConstraintOf(ConstraintFunc(s), SplitVersion(StripV(StripFunc(s))))

constraintTilde(v, c) ==
    IF semver_LessThan(v, c.con) THEN FALSE
    ELSE IF c.con.major = 0 /\ c.con.minor = 0 /\ c.con.patch = 0
            /\ ~c.minorDirty /\ ~c.patchDirty THEN TRUE
    ELSE IF v.major # c.con.major THEN FALSE
    ELSE IF v.minor # c.con.minor /\ ~c.minorDirty THEN FALSE
    ELSE TRUE

\* (*Constraints).Check: a prerelease version satisfies only a constraint
\* that itself names a prerelease.
semver_Check(c, v) ==
    IF v.pre # "" /\ c.con.pre = "" THEN FALSE
    ELSE IF c.func = ">=" THEN semver_Compare(v, c.con) >= 0
    ELSE IF c.dirty THEN constraintTilde(v, c)
    ELSE semver_Compare(v, c.con) = 0

(***************************************************************************)
(* The repository index: ChartVersions and IndexFile                       *)
(***************************************************************************)
\* Longest version list of an index at the start.
MaxLen == 2

V100    == <<"1", ".", "0", ".", "0">>
Vv100   == <<"v", "1", ".", "0", ".", "0">>
V120    == <<"1", ".", "2", ".", "0">>
V200rc1 == <<"2", ".", "0", ".", "0", "-", "rc1">>
VLatest == <<"latest">>
Versions == {V100, Vv100, V120, V200rc1, VLatest, Blank}

\* A *ChartVersion: the metadata's name and version, and the digest.
ChartVersion(name, version, digest) ==
    [Name |-> name, Version |-> version, Digest |-> digest]
NilChartVersion == ChartVersion("", Blank, "")

\* ChartVersions.Less (1-based positions): a failed parse pushes to the back.
LessParsed(i, j) ==
    IF ~i.ok THEN TRUE
    ELSE IF ~j.ok THEN FALSE
    ELSE semver_LessThan(i, j)

Less(c, a, b) ==
    LessParsed(semver_NewVersion(c[a].Version), semver_NewVersion(c[b].Version))

\* sort.Reverse(versions).Less
ReverseLess(c, i, j) == Less(c, j, i)

\* ChartVersions.Swap
Swap(c, i, j) == [c EXCEPT ![i] = c[j], ![j] = c[i]]

\* sort.Sort on a slice of at most 12 elements is insertion sort:
\*   for i := a + 1; i < b; i++ {
\*       for j := i; j > a && data.Less(j, j-1); j-- { data.Swap(j, j-1) } }
RECURSIVE insertionSortInner(_, _)
insertionSortInner(c, j) ==
    IF j > 1 /\ ReverseLess(c, j, j - 1)
    THEN insertionSortInner(Swap(c, j, j - 1), j - 1)
    ELSE c

RECURSIVE insertionSort(_, _)
insertionSort(c, i) ==
    IF i > Len(c) THEN c ELSE insertionSort(insertionSortInner(c, i), i + 1)

sort_Sort_Reverse(c) == insertionSort(c, 2)

\* IndexFile.SortEntries
SortEntries(e) == [name \in DOMAIN e |-> sort_Sort_Reverse(e[name])]

NoResult == [cv |-> NilChartVersion, pos |-> 0, err |-> NoErr]

\* ChartVersions.Get line 84: the constraint of an empty version.
AnyVersion == <<"*">>

\* ChartVersions.Get lines 103-108: ver parses and satisfies the constraint.
Satisfies_anyParsed(constraint, test) == test.ok

Satisfies(constraint, test) == test.ok /\ semver_Check(constraint, test)

Matches(constraint, ver) == Satisfies(constraint, semver_NewVersion(ver.Version))

First(S) == CHOOSE k \in S : \A j \in S : k <= j

Found(c, k) == [cv |-> c[k], pos |-> k, err |-> NoErr]

NotFound(err) == [cv |-> NilChartVersion, pos |-> 0, err |-> err]

\* ChartVersions.Get after line 86: the error of the constraint first, then
\* the exact match, then the first entry satisfying the constraint.
GetFrom(c, version, constraint, exact, match) ==
    IF ~constraint.ok THEN NotFound("improper constraint")
    ELSE IF Len(version) # 0 /\ exact # {} THEN Found(c, First(exact))
    ELSE IF match # {} THEN Found(c, First(match))
    ELSE NotFound("no chart version found for")

GetWith(c, version, constraint) ==
    GetFrom(c, version, constraint,
            {k \in 1..Len(c) : c[k].Version = version},
            {k \in 1..Len(c) : Matches(constraint, c[k])})

\* ChartVersions.Get: the entry returned, its position in c (0: none), the error.
ChartVersions_Get(c, name, version) ==
    GetWith(c, version,
            semver_NewConstraint(IF version = Blank THEN AnyVersion ELSE version))

\* IndexFile.GetVersions
GetVersions(e, name) ==
    IF name \notin DOMAIN e THEN [versions |-> <<>>, err |-> "ErrNoChartName"]
    ELSE IF Len(e[name]) = 0 THEN [versions |-> <<>>, err |-> "ErrNoChartVersion"]
    ELSE [versions |-> e[name], err |-> NoErr]

\* IndexFile.Get
GetIn(vs, name, version) ==
    IF vs.err # NoErr THEN NotFound(vs.err)
    ELSE ChartVersions_Get(vs.versions, name, version)

IndexFile_Get(e, name, version) == GetIn(GetVersions(e, name), name, version)

\* IndexFile.Has
Has(e, name, version) == IndexFile_Get(e, name, version).err = NoErr

\* Merge's inner loop over one version list cvs of f.
RECURSIVE MergeVersions(_, _)
MergeVersions(e, cvs) ==
    IF cvs = <<>> THEN e
    ELSE LET cv == Head(cvs)
             list == IF cv.Name \in DOMAIN e THEN e[cv.Name] ELSE <<>>
         IN  IF ~Has(e, cv.Name, cv.Version)
             THEN MergeVersions(
                      [x \in (DOMAIN e) \cup {cv.Name} |->
                          IF x = cv.Name THEN Append(list, cv) ELSE e[x]],
                      Tail(cvs))
             ELSE MergeVersions(e, Tail(cvs))

\* IndexFile.Merge, ranging over f.Entries in the order given.
RECURSIVE Merge(_, _, _)
Merge(e, f, order) ==
    IF order = <<>> THEN e
    ELSE Merge(MergeVersions(e, f[Head(order)]), f, Tail(order))

\* The orders in which a range over a map with these keys may run.
Orders(keys) ==
    {o \in UNION {[1..Cardinality(keys) -> keys]} :
        \A i, j \in 1..Cardinality(keys) : i # j => o[i] # o[j]}

(***************************************************************************)
(* Operations on an index, one at a time (an IndexFile is not shared       *)
(* between goroutines without the caller's own locking)                    *)
(***************************************************************************)
SeqsUpTo(S, n) == UNION {[1..k -> S] : k \in 0..n}

ChartNames == {"foo", "bar"}
QueryNames == {"foo", "baz"}
QueryVersions == {Blank, V100, VLatest, V200rc1, <<">=", "1", ".", "0", ".", "0">>}

\* The indexes the operations start from: the version lists of chart foo, each
\* entry stored under its own chart name, as MustAdd and Merge store it.
Indexes ==
    { [n \in {"foo"} |-> foo] :
        foo \in SeqsUpTo({ChartVersion("foo", v, "a") : v \in Versions}, MaxLen) }

\* The indexes merged in: one release of foo, of bar, or of both.
SrcVersions == {Vv100, V120, VLatest}
Sources ==
    { [n \in names |-> <<ChartVersion(n, IF n = "foo" THEN v ELSE V100, "b")>>] :
        names \in (SUBSET ChartNames) \ {{}}, v \in SrcVersions }

\* The registry stays as constructed from an empty repository file.
RegIdle ==
    /\ repos = EmptyMap /\ config = EmptyMap /\ indices = EmptyMap
    /\ indicesM = 0 /\ reposW = 0 /\ reposR = {}
    /\ pc = [p \in Procs |-> "idle"]
    /\ op = [p \in Procs |-> "none"]
    /\ arg = [p \in Procs |-> Blank]
    /\ cur = [p \in Procs |-> Blank]
    /\ repoEntry = [p \in Procs |-> NilEntry]
    /\ depI = [p \in Procs |-> 0]
    /\ out = [p \in Procs |-> EmptyMap]
    /\ ret = [p \in Procs |-> NoRet]
    /\ calls = 0
    /\ loads = [n \in IndexNames |-> 0]
    /\ urlNames = [u \in TrackedURLs |-> {}]
    /\ crashed = FALSE

\* No document has been loaded.
NoDoc == [kind |-> "none"]

NoOp == [op |-> "none", name |-> "", version |-> Blank, repeat |-> FALSE]

IdxInit ==
    /\ RegIdle
    /\ entries \in Indexes
    /\ other \in Sources
    /\ before = entries
    /\ lastOp = NoOp
    /\ result = NoResult
    /\ sorted = FALSE
    /\ doc = NoDoc
    /\ archives = <<>>
    /\ initialised = TRUE
    /\ returned = "none"
    /\ panicked = FALSE

\* i.SortEntries()
DoSortEntries ==
    /\ entries' = SortEntries(entries)
    /\ before' = entries
    /\ lastOp' = [NoOp EXCEPT !.op = "SortEntries"]
    /\ result' = NoResult
    /\ sorted' = TRUE
    /\ UNCHANGED <<other, regVars, buildVars>>

\* Merging is done on indexes within the starting bound.
Mergeable == \A n \in DOMAIN entries : Len(entries[n]) <= MaxLen

\* i.Merge(f) with the second index
DoMerge ==
    /\ Mergeable
    /\ \E order \in Orders(DOMAIN other) :
          entries' = Merge(entries, other, order)
    /\ before' = entries
    /\ lastOp' = [NoOp EXCEPT !.op = "Merge", !.repeat = (lastOp.op = "Merge")]
    /\ result' = NoResult
    /\ sorted' = FALSE
    /\ UNCHANGED <<other, regVars, buildVars>>

\* i.Merge(i)
DoMergeSelf ==
    /\ Mergeable
    /\ \E order \in Orders(DOMAIN entries) :
          entries' = Merge(entries, entries, order)
    /\ before' = entries
    /\ lastOp' = [NoOp EXCEPT !.op = "MergeSelf"]
    /\ result' = NoResult
    /\ sorted' = FALSE
    /\ UNCHANGED <<other, regVars, buildVars>>

\* i.Get(name, version)
DoGet ==
    /\ \E name \in QueryNames, version \in QueryVersions :
          /\ result' = IndexFile_Get(entries, name, version)
          /\ lastOp' = [NoOp EXCEPT !.op = "Get", !.name = name, !.version = version]
    /\ before' = entries
    /\ UNCHANGED <<entries, other, sorted, regVars, buildVars>>

IdxNext == DoSortEntries \/ DoMerge \/ DoMergeSelf \/ DoGet

IdxSpec == IdxInit /\ [][IdxNext]_vars

(***************************************************************************)
(* Claims about the index.  Positions are 1-based here: position 0 of a    *)
(* Go slice is position 1 of the sequence.                                 *)
(***************************************************************************)
Parses(ver) == semver_NewVersion(ver.Version).ok
IsStable(ver) == Parses(ver) /\ semver_NewVersion(ver.Version).pre = ""
VersionLess(v, w) ==
    semver_LessThan(semver_NewVersion(v.Version), semver_NewVersion(w.Version))

\* The last operation was Get on a chart with a non-empty version list.
GotFrom == lastOp.op = "Get" /\ lastOp.name \in DOMAIN entries
               /\ Len(entries[lastOp.name]) > 0

ExactAt(c, version) == {k \in 1..Len(c) : c[k].Version = version}

\* C6 as stated: Get with a non-empty version string that equals the raw
\* version string of some entry returns the first such entry, without error,
\* whether or not the string parses as a version or as a constraint.
C6_ExactMatchFirst ==
    (GotFrom /\ lastOp.version # Blank
        /\ ExactAt(entries[lastOp.name], lastOp.version) # {}) =>
        /\ result.err = NoErr
        /\ result.pos = First(ExactAt(entries[lastOp.name], lastOp.version))
        /\ result.cv = entries[lastOp.name][result.pos]

\* C7 as stated: on an index that was sorted and not changed since, Get with an
\* empty version for a chart with a non-empty list returns the entry at the
\* first position of the list, whatever that entry is.
C7_PositionZero ==
    (sorted /\ GotFrom /\ lastOp.version = Blank) =>
        /\ result.err = NoErr
        /\ result.pos = 1

StableAt(c) == {k \in 1..Len(c) : IsStable(c[k])}

\* C7 amended: on an index that was sorted and not changed since, Get with an
\* empty version for a chart with a non-empty list returns the first entry
\* whose version parses as a stable release, which is the latest stable
\* release of the list and is the first position when the entry there is
\* stable; prereleases and unparseable versions are skipped, and the call
\* fails when no entry is a stable release.
C7_LatestStable ==
    (sorted /\ GotFrom /\ lastOp.version = Blank) =>
        IF StableAt(entries[lastOp.name]) = {}
        THEN result.err = "no chart version found for" /\ result.pos = 0
        ELSE /\ result.err = NoErr
             /\ result.pos = First(StableAt(entries[lastOp.name]))
             /\ result.cv = entries[lastOp.name][result.pos]
             /\ \A k \in StableAt(entries[lastOp.name]) :
                   ~VersionLess(result.cv, entries[lastOp.name][k])
             /\ (IsStable(entries[lastOp.name][1]) => result.pos = 1)

\* C7 witness: a sorted list whose first entry is a prerelease, and Get with
\* an empty version has returned the stable release behind it.
C7_Witness ==
    /\ sorted /\ GotFrom /\ lastOp.version = Blank
    /\ Len(entries[lastOp.name]) = 2
    /\ entries[lastOp.name][1].Version = V200rc1
    /\ entries[lastOp.name][2].Version = V100
    /\ result.pos = 2 /\ result.err = NoErr

\* The entries of c that do not parse, and those equal in version to ver.
Unparsed(c) ==
    LET Test(x) == ~Parses(x) IN SelectSeq(c, Test)
EqualTo(c, ver) ==
    LET Test(x) == Parses(x) /\ ~VersionLess(x, ver) /\ ~VersionLess(ver, x)
    IN  SelectSeq(c, Test)

\* a is a rearrangement of b
IsPermutation(a, b) ==
    /\ Len(a) = Len(b)
    /\ \E f \in [1..Len(a) -> 1..Len(a)] :
          /\ \A i, j \in 1..Len(a) : i # j => f[i] # f[j]
          /\ \A i \in 1..Len(a) : a[i] = b[f[i]]

\* c is non-increasing by version, the unparseable entries after the others.
Descending(c) ==
    \A i, j \in 1..Len(c) :
        i < j => /\ ~Parses(c[i]) => ~Parses(c[j])
                 /\ (Parses(c[i]) /\ Parses(c[j])) => ~VersionLess(c[i], c[j])

\* What SortEntries does establish: a permutation in descending order with
\* the unparseable entries last, the order among equal versions kept.
SortedDescending ==
    lastOp.op = "SortEntries" =>
        /\ DOMAIN entries = DOMAIN before
        /\ \A n \in DOMAIN entries :
              /\ IsPermutation(entries[n], before[n])
              /\ Descending(entries[n])
              /\ \A k \in 1..Len(before[n]) :
                    Parses(before[n][k]) =>
                        EqualTo(entries[n], before[n][k]) = EqualTo(before[n], before[n][k])

\* C8 as stated: after SortEntries every version list is a permutation of its
\* previous content, non-increasing by version, unparseable entries last, and
\* the previous relative order is kept among entries of equal version and
\* among unparseable entries.
C8_SortedStable ==
    /\ SortedDescending
    /\ lastOp.op = "SortEntries" =>
          \A n \in DOMAIN entries : Unparsed(entries[n]) = Unparsed(before[n])

ListOf(e, n) == IF n \in DOMAIN e THEN e[n] ELSE <<>>
HasPair(e, cv) == \E k \in 1..Len(ListOf(e, cv.Name)) : ListOf(e, cv.Name)[k].Version = cv.Version

\* What Merge does establish: every entry of the destination stays where it
\* was, and what is appended comes from the source.
MergeKeeps ==
    lastOp.op \in {"Merge", "MergeSelf"} =>
        \A n \in DOMAIN before :
            /\ n \in DOMAIN entries
            /\ Len(entries[n]) >= Len(before[n])
            /\ SubSeq(entries[n], 1, Len(before[n])) = before[n]

\* C9 as stated: Merge appends every source entry whose (name, version string)
\* pair is absent from the destination, appends no source entry whose pair is
\* present, and leaves every destination entry in place.
C9_MergeAppendsAbsent ==
    lastOp.op = "Merge" =>
        /\ MergeKeeps
        /\ \A n \in DOMAIN other : \A k \in 1..Len(other[n]) :
              ~HasPair(before, other[n][k]) =>
                  \E j \in (Len(ListOf(before, n)) + 1)..Len(ListOf(entries, n)) :
                      entries[n][j] = other[n][k]
        /\ \A n \in DOMAIN entries :
              \A j \in (Len(ListOf(before, n)) + 1)..Len(entries[n]) :
                  ~HasPair(before, entries[n][j])

\* C10 as stated: merging an index into itself leaves its entries unchanged,
\* and merging the same index a second time changes nothing, also when
\* version strings do not parse.
C10_MergeIdempotent ==
    /\ lastOp.op = "MergeSelf" => entries = before
    /\ (lastOp.op = "Merge" /\ lastOp.repeat) => entries = before

(***************************************************************************)
(* Building an index: loadIndex, MustAdd, IndexDirectory                   *)
(***************************************************************************)
\* A chart version as decoded from a document or built by MustAdd: the
\* metadata's name, version and dependencies ("dup": two dependencies share
\* a name or alias) and the digest.
Entry(name, version, deps, digest) ==
    [Name |-> name, Version |-> version, Digest |-> digest, Dependencies |-> deps]

\* (*chart.Metadata).Validate, after the API version was defaulted: the first
\* rule that fails.
DupAlias == "validation: more than one dependency with name or alias"
Validate(md) ==
    IF md.Name = "" THEN "validation: chart.metadata.name is required"
    ELSE IF md.Version = Blank THEN "validation: chart.metadata.version is required"
    ELSE IF ~semver_NewVersion(md.Version).ok
    THEN "validation: chart.metadata.version is invalid"
    ELSE IF md.Dependencies = "dup" THEN DupAlias
    ELSE NoErr

ignoreSkippableChartValidationError(err) == IF err = DupAlias THEN NoErr ELSE err

\* loadIndex line 380: the entry is dropped.
Dropped(cv) == ignoreSkippableChartValidationError(Validate(cv)) # NoErr

\* cvs = append(cvs[:idx], cvs[idx+1:]...) as seen through the slice that
\* i.Entries[name] still holds: arr is the shared array at its full length,
\* n the length of the local cvs.  The tail moves one place to the left and
\* the last place of the local slice keeps its old content.
removeAt(arr, n, idx) ==
    [k \in 1..Len(arr) |-> IF k >= idx /\ k < n THEN arr[k + 1] ELSE arr[k]]

\* loadIndex lines 368-384 for one chart, idx running from the end down; the
\* result is the list i.Entries[name] holds afterwards: the local cvs is never
\* stored back into the map.
RECURSIVE cleanVersions(_, _, _)
cleanVersions(arr, n, idx) ==
    IF idx < 1 THEN arr
    ELSE IF arr[idx] = NilChartVersion THEN cleanVersions(arr, n, idx - 1)
    ELSE IF Dropped(arr[idx]) THEN cleanVersions(removeAt(arr, n, idx), n - 1, idx - 1)
    ELSE cleanVersions(arr, n, idx - 1)

cleanEntries(e) ==
    [name \in DOMAIN e |-> cleanVersions(e[name], Len(e[name]), Len(e[name]))]

\* ChartVersions.Less dereferences c[a], and c[b] once c[a]'s version parsed.
LessPanics(c, a, b) ==
    \/ c[a] = NilChartVersion
    \/ semver_NewVersion(c[a].Version).ok /\ c[b] = NilChartVersion

\* The insertion sort of sort_Sort_Reverse reaches a nil entry.
RECURSIVE insertionSortInnerPanics(_, _)
insertionSortInnerPanics(c, j) ==
    IF j > 1
    THEN \/ LessPanics(c, j - 1, j)
         \/ ReverseLess(c, j, j - 1) /\ insertionSortInnerPanics(Swap(c, j, j - 1), j - 1)
    ELSE FALSE

RECURSIVE insertionSortPanics(_, _)
insertionSortPanics(c, i) ==
    IF i > Len(c) THEN FALSE
    ELSE \/ insertionSortInnerPanics(c, i)
         \/ insertionSortPanics(insertionSortInner(c, i), i + 1)

SortEntriesPanics(e) == \E name \in DOMAIN e : insertionSortPanics(e[name], 2)

\* A decoded document: the top-level apiVersion, whether it has an entries
\* mapping, and the mapping.
Doc(kind, apiVersion, hasEntries, docEntries) ==
    [kind |-> kind, apiVersion |-> apiVersion, hasEntries |-> hasEntries,
     entries |-> docEntries]

Loaded(e, init, err, panic) ==
    [entries |-> e, initialised |-> init, err |-> err, panic |-> panic]

\* loadIndex lines 386-390: SortEntries, then the API version check.
loadIndexSorted_noSort(d, cleaned) ==
    Loaded(cleaned, d.hasEntries,
           IF d.apiVersion = "" THEN "ErrNoAPIVersion" ELSE NoErr, FALSE)

loadIndexSorted(d, cleaned) ==
    IF SortEntriesPanics(cleaned) THEN Loaded(cleaned, d.hasEntries, NoErr, TRUE)
    ELSE Loaded(SortEntries(cleaned), d.hasEntries,
                IF d.apiVersion = "" THEN "ErrNoAPIVersion" ELSE NoErr, FALSE)

\* loadIndex: the index returned (always non-nil), the error, or the panic.
loadIndex(d) ==
    IF d.kind = "empty" THEN Loaded(EmptyMap, FALSE, "ErrEmptyIndexYaml", FALSE)
    ELSE IF d.kind = "undecodable" THEN Loaded(EmptyMap, FALSE, "unmarshal", FALSE)
    ELSE loadIndexSorted(d, cleanEntries(d.entries))

\* MustAdd: the entries afterwards and the error.
Added(e, err) == [entries |-> e, err |-> err]

MustAdd_dedup(e, init, md, digest) ==
    IF ~init THEN Added(e, "entries not initialized")
    ELSE IF Validate(md) # NoErr THEN Added(e, "validate failed")
    ELSE IF md.Name \in DOMAIN e
            /\ \E k \in 1..Len(e[md.Name]) : e[md.Name][k].Version = md.Version
    THEN Added(e, NoErr)
    ELSE Added([x \in (DOMAIN e) \cup {md.Name} |->
                   IF x = md.Name
                   THEN Append(IF x \in DOMAIN e THEN e[x] ELSE <<>>,
                               Entry(md.Name, md.Version, md.Dependencies, digest))
                   ELSE e[x]],
               NoErr)

MustAdd(e, init, md, digest) ==
    IF ~init THEN Added(e, "entries not initialized")
    ELSE IF Validate(md) # NoErr THEN Added(e, "validate failed")
    ELSE Added([x \in (DOMAIN e) \cup {md.Name} |->
                   IF x = md.Name
                   THEN Append(IF x \in DOMAIN e THEN e[x] ELSE <<>>,
                               Entry(md.Name, md.Version, md.Dependencies, digest))
                   ELSE e[x]],
               NoErr)

\* An archive IndexDirectory found: the first step that fails on it ("rel",
\* "load", "digest" or "none") and the metadata of the chart inside.
Archive(fails, md) == [fails |-> fails, md |-> md]

RECURSIVE indexArchives_loadStops(_, _)
indexArchives_loadStops(e, archs) ==
    IF archs = <<>> THEN Added(e, NoErr)
    ELSE IF Head(archs).fails # "none" THEN Added(e, Head(archs).fails)
    ELSE IF MustAdd(e, TRUE, Head(archs).md, "h").err # NoErr
    THEN Added(e, "failed adding")
    ELSE indexArchives_loadStops(MustAdd(e, TRUE, Head(archs).md, "h").entries,
                                 Tail(archs))

\* IndexDirectory lines 321-349 over the archives in order.
RECURSIVE indexArchives(_, _)
indexArchives(e, archs) ==
    IF archs = <<>> THEN Added(e, NoErr)
    ELSE IF Head(archs).fails = "rel" THEN Added(e, "rel")
    ELSE IF Head(archs).fails = "load" THEN indexArchives(e, Tail(archs))
    ELSE IF Head(archs).fails = "digest" THEN Added(e, "digest")
    ELSE IF MustAdd(e, TRUE, Head(archs).md, "h").err # NoErr
    THEN Added(e, "failed adding")
    ELSE indexArchives(MustAdd(e, TRUE, Head(archs).md, "h").entries, Tail(archs))

(***************************************************************************)
(* Lookups on an index that may hold nil entries or a nil Entries map      *)
(***************************************************************************)
NilAt(c) == {k \in 1..Len(c) : c[k] = NilChartVersion}

\* ChartVersions.Get dereferences every entry it passes: the exact-match loop
\* up to the first exact match, the scan up to the first match.
GetPanicsFrom(version, constraint, nils, exact, match) ==
    /\ constraint.ok
    /\ nils # {}
    /\ IF version # Blank THEN exact = {} \/ First(nils) < First(exact)
       ELSE match = {} \/ First(nils) < First(match)

GetPanicsWith(c, version, constraint) ==
    GetPanicsFrom(version, constraint, NilAt(c),
                  {k \in 1..Len(c) : c[k].Version = version},
                  {k \in 1..Len(c) : Matches(constraint, c[k])})

ChartVersions_GetPanics(c, version) ==
    GetPanicsWith(c, version,
                  semver_NewConstraint(IF version = Blank THEN AnyVersion ELSE version))

IndexFile_GetPanics(e, name, version) ==
    /\ GetVersions(e, name).err = NoErr
    /\ ChartVersions_GetPanics(e[name], version)

\* Merge's inner loop: cv.Name on a nil cv, Has on a list with a nil entry,
\* or the assignment i.Entries[cv.Name] = ... into a nil map.
RECURSIVE MergeVersionsPanics(_, _, _)
MergeVersionsPanics(e, init, cvs) ==
    IF cvs = <<>> THEN FALSE
    ELSE \/ Head(cvs) = NilChartVersion
         \/ IndexFile_GetPanics(e, Head(cvs).Name, Head(cvs).Version)
         \/ ~Has(e, Head(cvs).Name, Head(cvs).Version) /\ ~init
         \/ MergeVersionsPanics(MergeVersions(e, <<Head(cvs)>>), init, Tail(cvs))

RECURSIVE MergePanics(_, _, _, _)
MergePanics(e, init, f, order) ==
    IF order = <<>> THEN FALSE
    ELSE \/ MergeVersionsPanics(e, init, f[Head(order)])
         \/ MergePanics(MergeVersions(e, f[Head(order)]), init, f, Tail(order))

(***************************************************************************)
(* Building and using an index, one call at a time                         *)
(***************************************************************************)
NoMetadata == Entry("", Blank, "ok", "d")
DocEntries ==
    { NilChartVersion, NoMetadata,
      Entry("foo", V100, "ok", "d"), Entry("foo", V120, "ok", "d"),
      Entry("foo", V200rc1, "dup", "d"), Entry("foo", VLatest, "ok", "d") }

Docs ==
    { Doc("empty", "", FALSE, EmptyMap), Doc("undecodable", "", FALSE, EmptyMap) }
    \cup { Doc("decoded", v, FALSE, EmptyMap) : v \in {"", "v1"} }
    \cup { Doc("decoded", v, TRUE, [n \in names |-> l]) :
              v \in {"", "v1"}, names \in {{}, {"foo"}},
              l \in SeqsUpTo(DocEntries, MaxLen) }

Metadata(name, version, deps) ==
    [Name |-> name, Version |-> version, Dependencies |-> deps]
Metadatas ==
    { Metadata("foo", V100, "ok"), Metadata("bar", V100, "ok"),
      Metadata("", V100, "ok"), Metadata("foo", V100, "dup") }

ArchiveKinds ==
    { Archive("none", md) : md \in Metadatas }
    \cup { Archive(f, Metadata("foo", V120, "ok")) : f \in {"rel", "load", "digest"} }

BuildSources ==
    { [n \in {"foo"} |-> <<Entry("foo", V120, "ok", "b")>>],
      [n \in {"foo"} |-> <<NilChartVersion>>],
      [n \in {"bar"} |-> <<Entry("bar", V100, "ok", "b")>>] }

\* index := NewIndexFile()
BuildInit ==
    /\ RegIdle
    /\ entries = EmptyMap
    /\ other = EmptyMap
    /\ before = EmptyMap
    /\ lastOp = NoOp
    /\ result = NoResult
    /\ sorted = FALSE
    /\ doc = NoDoc
    /\ archives = <<>>
    /\ initialised = TRUE
    /\ returned = "index"
    /\ panicked = FALSE

\* The caller is running and holds an index.
HasIndex == ~panicked /\ returned = "index"

\* A behaviour follows one index from its construction: loadIndex,
\* LoadIndexFile and IndexDirectory build a new index whatever was done
\* before, so they are taken first, in place of NewIndexFile.
Fresh == lastOp.op = "none"

Outcome(o, err) ==
    /\ lastOp' = [NoOp EXCEPT !.op = o]
    /\ result' = [NoResult EXCEPT !.err = err]

\* i, err := loadIndex(data, source)
DoLoadIndex ==
    /\ Fresh
    /\ \E d \in Docs :
          /\ doc' = d
          /\ panicked' = loadIndex(d).panic
          /\ entries' = IF loadIndex(d).panic THEN entries ELSE loadIndex(d).entries
          /\ initialised' = loadIndex(d).initialised
          /\ sorted' = (d.kind = "decoded" /\ ~loadIndex(d).panic)
          /\ Outcome("loadIndex", loadIndex(d).err)
    /\ returned' = "index"
    /\ before' = EmptyMap
    /\ archives' = <<>>
    /\ UNCHANGED <<other, regVars>>

\* What LoadIndexFile makes of loadIndex's result: no index with an error.
LoadIndexFile_index(r) ==
    IF r.err # NoErr THEN Loaded(EmptyMap, FALSE, r.err, r.panic) ELSE r

\* i, err := LoadIndexFile(path), the file missing or holding a document
DoLoadIndexFile ==
    /\ Fresh
    /\ \/ /\ doc' = NoDoc
          /\ Outcome("LoadIndexFile", "read")
          /\ entries' = EmptyMap /\ initialised' = FALSE /\ sorted' = FALSE
          /\ returned' = "nil"
          /\ UNCHANGED panicked
       \/ \E d \in Docs :
             /\ doc' = d
             /\ panicked' = loadIndex(d).panic
             /\ entries' = IF loadIndex(d).panic THEN entries
                           ELSE LoadIndexFile_index(loadIndex(d)).entries
             /\ initialised' = LoadIndexFile_index(loadIndex(d)).initialised
             /\ sorted' = (loadIndex(d).err = NoErr /\ ~loadIndex(d).panic)
             /\ returned' = IF loadIndex(d).err = NoErr THEN "index" ELSE "nil"
             /\ Outcome("LoadIndexFile", loadIndex(d).err)
    /\ before' = EmptyMap
    /\ archives' = <<>>
    /\ UNCHANGED <<other, regVars>>

\* The version lists stay within the bound.
Addable == \A n \in DOMAIN entries : Len(entries[n]) <= MaxLen

\* err := i.MustAdd(md, filename, baseURL, digest)
DoMustAdd ==
    /\ HasIndex
    /\ Addable
    /\ \E md \in Metadatas :
          /\ entries' = MustAdd(entries, initialised, md, "m").entries
          /\ lastOp' = [NoOp EXCEPT !.op = "MustAdd", !.name = md.Name,
                                    !.version = md.Version]
          /\ result' = [NoResult EXCEPT
                           !.err = MustAdd(entries, initialised, md, "m").err,
                           !.cv = Entry(md.Name, md.Version, md.Dependencies, "m")]
    /\ before' = entries
    /\ sorted' = FALSE
    /\ doc' = NoDoc
    /\ archives' = <<>>
    /\ UNCHANGED <<other, initialised, returned, panicked, regVars>>

\* index, err := IndexDirectory(dir, baseURL)
DoIndexDirectory ==
    /\ Fresh
    /\ \/ /\ archives' = <<>>
          /\ entries' = EmptyMap /\ initialised' = FALSE
          /\ returned' = "nil"
          /\ Outcome("IndexDirectory", "glob")
       \/ \E archs \in SeqsUpTo(ArchiveKinds, MaxLen) :
             /\ archives' = archs
             /\ entries' = indexArchives(EmptyMap, archs).entries
             /\ initialised' = TRUE
             /\ returned' = "index"
             /\ Outcome("IndexDirectory", indexArchives(EmptyMap, archs).err)
    /\ before' = EmptyMap
    /\ sorted' = FALSE
    /\ doc' = NoDoc
    /\ UNCHANGED <<other, panicked, regVars>>

Panic(o) ==
    /\ panicked' = TRUE
    /\ lastOp' = [NoOp EXCEPT !.op = o]
    /\ result' = NoResult
    /\ UNCHANGED <<entries, sorted>>

\* i.Get(name, version); Has(name, version) is whether it returns no error.
CallGet ==
    /\ HasIndex
    /\ \E name \in QueryNames, version \in {Blank, V100, VLatest} :
          IF IndexFile_GetPanics(entries, name, version)
          THEN Panic("Get")
          ELSE /\ result' = IndexFile_Get(entries, name, version)
               /\ lastOp' = [NoOp EXCEPT !.op = "Get", !.name = name,
                                         !.version = version]
               /\ UNCHANGED <<entries, sorted, panicked>>
    /\ before' = entries
    /\ doc' = NoDoc
    /\ archives' = <<>>
    /\ UNCHANGED <<other, initialised, returned, regVars>>

\* i.GetVersions(name)
CallGetVersions ==
    /\ HasIndex
    /\ \E name \in QueryNames :
          /\ result' = [NoResult EXCEPT !.err = GetVersions(entries, name).err]
          /\ lastOp' = [NoOp EXCEPT !.op = "GetVersions", !.name = name]
    /\ before' = entries
    /\ doc' = NoDoc
    /\ archives' = <<>>
    /\ UNCHANGED <<entries, other, sorted, initialised, returned, panicked, regVars>>

\* i.Merge(f)
CallMerge ==
    /\ HasIndex
    /\ Addable
    /\ \E f \in BuildSources : \E order \in Orders(DOMAIN f) :
          /\ other' = f
          /\ IF MergePanics(entries, initialised, f, order)
             THEN Panic("Merge")
             ELSE /\ entries' = Merge(entries, f, order)
                  /\ Outcome("Merge", NoErr)
                  /\ sorted' = FALSE
                  /\ UNCHANGED panicked
    /\ before' = entries
    /\ doc' = NoDoc
    /\ archives' = <<>>
    /\ UNCHANGED <<initialised, returned, regVars>>

\* i.SortEntries()
CallSortEntries ==
    /\ HasIndex
    /\ IF SortEntriesPanics(entries)
       THEN Panic("SortEntries")
       ELSE /\ entries' = SortEntries(entries)
            /\ Outcome("SortEntries", NoErr)
            /\ sorted' = TRUE
            /\ UNCHANGED panicked
    /\ before' = entries
    /\ doc' = NoDoc
    /\ archives' = <<>>
    /\ UNCHANGED <<other, initialised, returned, regVars>>

BuildNext ==
    \/ DoLoadIndex
    \/ DoLoadIndexFile
    \/ DoMustAdd
    \/ DoIndexDirectory
    \/ CallGet
    \/ CallGetVersions
    \/ CallMerge
    \/ CallSortEntries

BuildSpec == BuildInit /\ [][BuildNext]_vars

(***************************************************************************)
(* Claims about building an index                                          *)
(***************************************************************************)
\* loadIndex has just returned for a decoded document.
LoadedDoc == lastOp.op = "loadIndex" /\ doc.kind = "decoded"

\* C11 as stated: loadIndex on a decodable document completes without
\* aborting, and no version list of the index it returns holds a nil entry or
\* an entry that fails validation (the duplicate-alias failure apart),
\* wherever the offending entry stood in its list.
C11_NoInvalidEntryLoaded ==
    LoadedDoc =>
        /\ ~panicked
        /\ \A n \in DOMAIN entries : \A k \in 1..Len(entries[n]) :
              /\ entries[n][k] # NilChartVersion
              /\ ~Dropped(entries[n][k])

\* C12 as stated: Get, Has, GetVersions and Merge never panic on an index
\* built by NewIndexFile, loadIndex, MustAdd, Merge and SortEntries.
C12_LookupsNeverPanic ==
    ~(panicked /\ lastOp.op \in {"Get", "GetVersions", "Merge"})

Requested(version) == semver_NewConstraint(IF version = Blank THEN AnyVersion ELSE version)
MatchesRequest(cv, version) ==
    \/ version # Blank /\ cv.Version = version
    \/ Requested(version).ok /\ Matches(Requested(version), cv)

\* C16, the part that holds: the three failures give three different errors.
ThreeErrors ==
    lastOp.op = "Get" =>
        IF lastOp.name \notin DOMAIN entries THEN result.err = "ErrNoChartName"
        ELSE IF Len(entries[lastOp.name]) = 0 THEN result.err = "ErrNoChartVersion"
        ELSE (\A k \in 1..Len(entries[lastOp.name]) :
                 ~MatchesRequest(entries[lastOp.name][k], lastOp.version)) =>
                 result.err \notin {NoErr, "ErrNoChartName", "ErrNoChartVersion"}

\* C16 as stated: IndexFile.Get returns ErrNoChartName for an unknown name,
\* ErrNoChartVersion for an empty list, a third error when the list is not
\* empty and no entry matches, and an entry without error in every other case.
C16_ErrorPerCase ==
    /\ ThreeErrors
    /\ (GotFrom /\ \E k \in 1..Len(entries[lastOp.name]) :
                      MatchesRequest(entries[lastOp.name][k], lastOp.version)) =>
           (result.err = NoErr /\ result.pos > 0)

\* C17: a successful MustAdd appends one record at the end of the list of the
\* metadata's chart name and changes nothing else, without sorting or
\* deduplicating; it fails exactly when the entries are not initialised or
\* the metadata does not validate, and then changes nothing.
C17_AppendsOne ==
    lastOp.op = "MustAdd" =>
        /\ result.err # NoErr <=> (~initialised \/ Validate(result.cv) # NoErr)
        /\ result.err # NoErr => entries = before
        /\ result.err = NoErr =>
              /\ DOMAIN entries = DOMAIN before \cup {lastOp.name}
              /\ entries[lastOp.name] = Append(ListOf(before, lastOp.name), result.cv)
              /\ \A n \in DOMAIN before : n # lastOp.name => entries[n] = before[n]

\* C17 witness: the same name and version added twice, two equal records.
C17_Witness ==
    /\ lastOp.op = "MustAdd" /\ result.err = NoErr /\ lastOp.name = "foo"
    /\ Len(entries["foo"]) = 2
    /\ entries["foo"][1] = entries["foo"][2]
    /\ Len(before["foo"]) = 1

\* The first archive at which IndexDirectory stops, 0 when there is none.
StopsAt(archs) ==
    LET stops == {k \in 1..Len(archs) :
                     \/ archs[k].fails \in {"rel", "digest"}
                     \/ archs[k].fails = "none" /\ Validate(archs[k].md) # NoErr}
    IN  IF stops = {} THEN 0 ELSE First(stops)

\* The records of the archives of archs that hold a chart named n.
RecordsOf(archs, n) ==
    LET Is(a) == a.fails = "none" /\ a.md.Name = n
        sel == SelectSeq(archs, Is)
    IN  [k \in 1..Len(sel) |->
            Entry(sel[k].md.Name, sel[k].md.Version, sel[k].md.Dependencies, "h")]

ScannedPrefix(archs, stop) == IF stop = 0 THEN archs ELSE SubSeq(archs, 1, stop - 1)

\* C18: IndexDirectory takes the archives in order, skips one that does not
\* load, stops at the first relative-path, digest or insertion failure, and
\* returns that error with exactly the records of the archives added before.
C18_PartialIndex ==
    (lastOp.op = "IndexDirectory" /\ returned = "index") =>
        /\ result.err # NoErr <=> StopsAt(archives) # 0
        /\ \A n \in ChartNames \cup {""} :
              ListOf(entries, n) = RecordsOf(ScannedPrefix(archives, StopsAt(archives)), n)
        /\ DOMAIN entries \subseteq ChartNames

\* C18 witness: the first archive is added, the second has no digest: the
\* error comes with the one record.
C18_Witness ==
    /\ lastOp.op = "IndexDirectory" /\ result.err = "digest"
    /\ Len(archives) = 2
    /\ archives[1].fails = "none" /\ archives[1].md = Metadata("bar", V100, "ok")
    /\ archives[2].fails = "digest"
    /\ DOMAIN entries = {"bar"} /\ Len(entries["bar"]) = 1

Count(c, x) == Cardinality({k \in 1..Len(c) : c[k] = x})

\* C19 as stated: for every chart name the returned version list holds, as a
\* multiset, exactly the non-nil entries of the decoded list that pass
\* validation.
C19_NoLossNoDuplicate ==
    (LoadedDoc /\ ~panicked) =>
        /\ DOMAIN entries = DOMAIN doc.entries
        /\ \A n \in DOMAIN entries : \A x \in DocEntries :
              Count(entries[n], x) =
                  IF x = NilChartVersion \/ Dropped(x) THEN 0
                  ELSE Count(doc.entries[n], x)

====
